---------------------------- MODULE Spec2Model ----------------------------
(***************************************************************************)
(* luna: the code generator (src/src/Visitor.cpp) and the generational     *)
(* garbage collector (src/unnamed/part_000, the GC header).                *)
(*                                                                         *)
(* Three state machines share this module:                                 *)
(*   Spec       CodeGenerateVisitor lowering chunks, one statement a step  *)
(*   SpecScope  the NameScope class driven directly (enter / add / exit)   *)
(*   SpecGC     the collector driven by a mutator                          *)
(* Registers and constant indices are 0-based as in the source.            *)
(***************************************************************************)
EXTENDS Integers, Sequences, FiniteSets, TLC

VARIABLES
    \* ---- CodeGenerateVisitor
    pc,                 \* "idle": outside Visit(Chunk); "block": inside Visit(Block)
    func_,              \* the current Function (0 = nullptr): its id
    func,               \* the current Function's generation-time contents
    func_states_,       \* GenerateState::func_states_
    func_state_,        \* CodeGenerateVisitor::func_state_, an index into func_states_ (0 = nullptr)
    scope_name_list_,   \* ScopeNameList: name_list_ and the chain of live NameScopes
    block_reg,          \* the local `reg` of Visit(Block)
    stack_,             \* state_->stack_: the functions whose closures were pushed
    \* ---- observation of the code generator (history, not program state)
    stmt,               \* the statement lowered last and the state it started from
    unsupported,        \* a visit with an empty body was entered in this chunk
    const_uses,         \* (pool, literal, index) of every AddConst call of this function
    exp_pushes,         \* (final, count) of every PushExpValueCount an ExpressionList of the last statement made
    name_steps,         \* per name of the last statement's NameList: the state before and after it
    block_locals,       \* names newly declared at the top level of the block
    nodes,              \* AST leaves lowered so far
    \* ---- observation of NameScope driven directly
    entered,            \* per live scope: name_list_ as it was when the scope was entered
    last_exit,          \* the scope exit made last: what was entered with, what it held
    \* ---- GC
    heap,               \* the GC objects alive (allocated and not destroyed by a sweep)
    generation_,        \* GCObject::generation_ of every object
    refs,               \* the GC object members of every object (what Accept visits)
    roots,              \* the objects the root travellers visit
    barriered_,         \* GC::barriered_
    allocated,          \* number of objects allocated so far (objects are 1..allocated)
    ops,                \* number of mutator operations so far
    \* ---- observation of the GC
    barrier_stored,     \* the references <<x, y>> stored under CHECK_BARRIER since the last minor collection
    barrier_kept,       \* the live objects a minor collection marked only through the barrier queue
    last_gc             \* the collection or barriered store made last and the state it started from

cgvars == <<pc, func_, func, func_states_, func_state_, scope_name_list_, block_reg,
            stack_, stmt, unsupported, const_uses, exp_pushes, name_steps,
            block_locals, nodes>>

scvars == <<entered, last_exit>>

gcvars == <<heap, generation_, refs, roots, barriered_, allocated, ops, barrier_stored,
            barrier_kept, last_gc>>

vars == <<cgvars, scvars, gcvars>>

\* ---------------------------------------------------------------- bounds
MaxNodes == 4       \* AST leaves (names, terminators, stub nodes) per run
MaxNames == 2       \* names of one NameList
MaxExps == 2        \* expressions of one ExpressionList
MaxChunks == 2      \* chunks compiled by one generator
MaxScopes == 3      \* NameScopes alive at once
MaxScopeNames == 3  \* entries of the scope name list
MaxRegister == 1    \* registers handed to AddScopeName run 0..MaxRegister
MaxObjects == 3     \* GC objects allocated in one run
MaxBarriered == 2   \* entries of the barrier queue
MaxOps == 6         \* mutator operations (allocations, stores, root changes) in one run

\* ------------------------------------------------------------- constants
EXP_VALUE_COUNT_ANY == -1
ENV_TABLE_INDEX == 0
NullFunc == 0
GCGen0 == 0
GCGen1 == 1
GCGen2 == 2

\* ------------------------------------------------------------------- AST
Names == {"a", "b"}
IdNames == {"a", "print"}

Tok(kind, n, s) == [token_ |-> kind, number_ |-> n, str_ |-> s]
NumberTok(n) == Tok("Token_Number", n, "")
StringTok(s) == Tok("Token_String", 0, s)
IdTok(s) == Tok("Token_Id", 0, s)

Terminator(t) == [type |-> "Terminator", token_ |-> t]
Terms == {Terminator(NumberTok(n)) : n \in {1, 2}}
           \cup {Terminator(StringTok("hi"))}
           \cup {Terminator(IdTok(s)) : s \in IdNames}

\* Expression nodes whose Visit has an empty body.
StubExpTypes == {"BinaryExpression", "UnaryExpression", "FunctionBody", "TableDefine",
                 "IndexAccessor", "MemberAccessor", "MemberFuncCall"}
\* Statement nodes whose Visit has an empty body.
StubStmtTypes == {"ReturnStatement", "BreakStatement", "DoStatement", "WhileStatement",
                  "RepeatStatement", "IfStatement", "NumericForStatement",
                  "GenericForStatement", "FunctionStatement", "LocalFunctionStatement",
                  "AssignmentStatement"}
StubNode(ty) == [type |-> ty]
StubExps == {StubNode(ty) : ty \in StubExpTypes}

ExpressionList(es) == [type |-> "ExpressionList", exp_list_ |-> es]
NullNode == [type |-> "null"]
FuncCallArgs(ty, arg) == [type |-> "FuncCallArgs", type_ |-> ty, arg_ |-> arg]
NormalFuncCall(caller, args) == [type |-> "NormalFuncCall", caller_ |-> caller, args_ |-> args]

Min(a, b) == IF a < b THEN a ELSE b
\* the nonempty sequences over S of at most n elements (none when n <= 0)
SeqsUpTo(S, n) == UNION {[1..k -> S] : k \in 1..n}

\* Arguments of a call: (), (e1, ..), a string literal, a table constructor;
\* at most `room` leaves.
ArgExps == {Terminator(NumberTok(1)), Terminator(StringTok("hi")), Terminator(IdTok("a")),
            StubNode("BinaryExpression")}
ArgForms(room) ==
    {FuncCallArgs("ExpList", NullNode)}
      \cup {FuncCallArgs("ExpList", ExpressionList(es)) :
               es \in SeqsUpTo(ArgExps, Min(MaxExps, room))}
      \cup (IF room >= 1
            THEN {FuncCallArgs("String", Terminator(StringTok("hi"))),
                  FuncCallArgs("Table", StubNode("TableDefine"))}
            ELSE {})
Callers == {Terminator(IdTok(s)) : s \in IdNames} \cup {StubNode("MemberAccessor")}
Calls(room) == {NormalFuncCall(c, a) : c \in Callers, a \in ArgForms(room - 1)}

\* A call nested in an expression list
InnerCalls == {NormalFuncCall(Terminator(IdTok("print")), FuncCallArgs("ExpList", NullNode))}
Exps == Terms \cup StubExps \cup InnerCalls
NameLists(room) == SeqsUpTo(Names, Min(MaxNames, room))
ExpLists(room) == SeqsUpTo(Exps, Min(MaxExps, room))

RECURSIVE Weight(_)
SumWeight(es) == LET RECURSIVE S(_)
                     S(i) == IF i = 0 THEN 0 ELSE Weight(es[i]) + S(i - 1)
                 IN S(Len(es))
Weight(n) ==
    CASE n.type = "NormalFuncCall" -> Weight(n.caller_) + Weight(n.args_)
      [] n.type = "FuncCallArgs" -> Weight(n.arg_)
      [] n.type = "ExpressionList" -> SumWeight(n.exp_list_)
      [] n.type = "null" -> 0
      [] OTHER -> 1


\* ------------------------------------------------- Function (prototype)
\* Function.cpp is not among the sources; these follow the register
\* discipline and the constant pools the specification describes.
NewFunctionRecord ==
    [next_register |-> 0, instructions |-> <<>>, const_numbers |-> <<>>, const_strings |-> <<>>]
GetNextRegister(f) == f.next_register
AllocaNextRegister(f) == [f EXCEPT !.next_register = @ + 1]
SetNextRegister(f, r) == [f EXCEPT !.next_register = r]
AddInstruction(f, i) == [f EXCEPT !.instructions = Append(@, i)]
InPool(pool, v) == \E i \in 1..Len(pool) : pool[i] = v
\* 0-based index of v in a pool that holds it
IndexOfConst(pool, v) == (CHOOSE i \in 1..Len(pool) : pool[i] = v) - 1
AddConstNumber(f, n) ==
    IF InPool(f.const_numbers, n) THEN f ELSE [f EXCEPT !.const_numbers = Append(@, n)]
AddConstString(f, s) ==
    IF InPool(f.const_strings, s) THEN f ELSE [f EXCEPT !.const_strings = Append(@, s)]

\* Instruction::ACode / ABCode / ABCCode / AsBxCode
ACode(op, a) == <<op, a>>
ABCode(op, a, b) == <<op, a, b>>
ABCCode(op, a, b, c) == <<op, a, b, c>>
AsBxCode(op, a, b) == <<op, a, b>>

\* ------------------------------------------------------------ NameScope
\* A ScopeNameList is [name_list_, scopes]: scopes is the chain of live
\* NameScope objects, current_scope_ last, each one's previous_ the entry
\* before it (NameScopes are stack objects, destroyed in reverse order).
ScopeName(name, reg) == [name_ |-> name, register_ |-> reg]
EmptyScopeNameList == [name_list_ |-> <<>>, scopes |-> <<>>]
CurrentScope(snl) == Len(snl.scopes)

\* NameScope::NameScope(name_list, owner); owner = NullFunc stands for the
\* default argument and takes the previous scope's owner.
NameScopeEnter(snl, owner) ==
    [snl EXCEPT !.scopes =
        Append(@, [start_ |-> Len(snl.name_list_),
                   owner_ |-> IF owner # NullFunc THEN owner
                              ELSE snl.scopes[Len(snl.scopes)].owner_])]

\* std::vector::resize(n): truncate, or pad with default ScopeNames
Resize(list, n) ==
    [i \in 1..n |-> IF i <= Len(list) THEN list[i] ELSE ScopeName("", 0)]

NameScopeExitDropsNothing(snl) ==
    [snl EXCEPT !.scopes = SubSeq(@, 1, Len(@) - 1)]

\* NameScope::~NameScope() of the current scope
NameScopeExit(snl) ==
    [name_list_ |-> Resize(snl.name_list_, snl.scopes[Len(snl.scopes)].start_),
     scopes |-> SubSeq(snl.scopes, 1, Len(snl.scopes) - 1)]

\* The entries scope k searches: from its start_ to the END of the list.
ScopeHits(snl, k, name) ==
    {i \in (snl.scopes[k].start_ + 1)..Len(snl.name_list_) : snl.name_list_[i].name_ = name}
IsBelongsToScope(snl, k, name) == ScopeHits(snl, k, name) # {}
\* the register IsBelongsToScope stores in *reg: that of the first hit
ScopeRegister(snl, k, name) ==
    snl.name_list_[CHOOSE i \in ScopeHits(snl, k, name) :
                      \A j \in ScopeHits(snl, k, name) : i <= j].register_
GetNameRegister(snl, k, name) ==
    IF IsBelongsToScope(snl, k, name) THEN ScopeRegister(snl, k, name) ELSE -1

\* NameScope::AddScopeName on the current scope: TRUE iff the name was added
AddScopeNameAdds(snl, name) == ~IsBelongsToScope(snl, CurrentScope(snl), name)
AddScopeName(snl, name, reg) ==
    IF AddScopeNameAdds(snl, name)
    THEN [snl EXCEPT !.name_list_ = Append(@, ScopeName(name, reg))]
    ELSE snl
\* *reg after AddScopeName: unchanged when added, else the register found
AddScopeNameReg(snl, name, reg) ==
    IF AddScopeNameAdds(snl, name) THEN reg
    ELSE ScopeRegister(snl, CurrentScope(snl), name)

\* the search started at the outermost scope
GetBlongsToScopeOutermost(snl, k, name) ==
    IF \E j \in 1..k : IsBelongsToScope(snl, j, name)
    THEN CHOOSE j \in 1..k : /\ IsBelongsToScope(snl, j, name)
                             /\ \A i \in 1..(j - 1) : ~IsBelongsToScope(snl, i, name)
    ELSE 0

\* NameScope::GetBlongsToScope from scope k: the scope found (0 = nullptr)
RECURSIVE GetBlongsToScope(_, _, _)
GetBlongsToScope(snl, k, name) ==
    IF k = 0 THEN 0
    ELSE IF IsBelongsToScope(snl, k, name) THEN k
    ELSE GetBlongsToScope(snl, k - 1, name)
GetOwnerFunction(snl, k) == IF k = 0 THEN NullFunc ELSE snl.scopes[k].owner_

\* ------------------------------------------------ FunctionGenerateState
NewFunctionGenerateState ==
    [names_register_ |-> <<>>, exp_value_count_ |-> <<>>, exp_list_value_count_ |-> <<>>]
NameReg(reg, token) == [register_ |-> reg, token_ |-> token]
PushExpValueCount(fs, count) == [fs EXCEPT !.exp_value_count_ = Append(@, count)]
\* PopExpValueCount: the value returned, and the state left
TopExpValueCount(fs) ==
    IF fs.exp_value_count_ = <<>> THEN 0 ELSE fs.exp_value_count_[Len(fs.exp_value_count_)]
PopExpValueCount(fs) ==
    IF fs.exp_value_count_ = <<>> THEN fs
    ELSE [fs EXCEPT !.exp_value_count_ = SubSeq(@, 1, Len(@) - 1)]
PushExpListValueCount(fs, count) == [fs EXCEPT !.exp_list_value_count_ = Append(@, count)]
TopExpListValueCount(fs) ==
    IF fs.exp_list_value_count_ = <<>> THEN 0
    ELSE fs.exp_list_value_count_[Len(fs.exp_list_value_count_)]
PopExpListValueCount(fs) ==
    IF fs.exp_list_value_count_ = <<>> THEN fs
    ELSE [fs EXCEPT !.exp_list_value_count_ = SubSeq(@, 1, Len(@) - 1)]


\* -------------------------------------------------- CodeGenerateVisitor
\* The visits work on g, the generator's state during one statement:
\*   g.func  the contents of *func_         g.fs   *func_state_
\*   g.snl   scope_name_list_               g.unsupported, g.const_uses,
\*                                          g.exp_pushes, g.name_steps  (history)
RECURSIVE Visit(_, _)
RECURSIVE VisitNameListFrom(_, _, _)
RECURSIVE VisitNameListFromAlwaysNew(_, _, _)
RECURSIVE VisitExpressionListFrom(_, _, _, _)
RECURSIVE VisitExpressionListFromAll(_, _, _, _)

\* Every Visit with an empty body: ReturnStatement .. LocalFunctionStatement,
\* AssignmentStatement, VarList, BinaryExpression, UnaryExpression,
\* FunctionBody, ParamList, TableDefine and its fields, IndexAccessor,
\* MemberAccessor, MemberFuncCall. It pops nothing, emits nothing, reports nothing.
VisitStub(g, node) == [g EXCEPT !.unsupported = TRUE]

ConstUse(pool, v, index) == [pool |-> pool, value |-> v, index |-> index]

\* The index taken as "the entry just appended".
VisitTerminatorLastIndex(g, term) ==
    LET t == term.token_
        value_count == TopExpValueCount(g.fs)
        g0 == [g EXCEPT !.fs = PopExpValueCount(g.fs)]
        f1 == IF t.token_ = "Token_Number" THEN AddConstNumber(g0.func, t.number_)
              ELSE AddConstString(g0.func, t.str_)
        index == IF t.token_ = "Token_Number" THEN Len(f1.const_numbers) - 1
                 ELSE Len(f1.const_strings) - 1
        use == IF t.token_ = "Token_Number" THEN ConstUse("number", t.number_, index)
               ELSE ConstUse("string", t.str_, index)
        reg == GetNextRegister(f1)
    IN  IF value_count # 0
        THEN [g0 EXCEPT !.func = AddInstruction(AllocaNextRegister(f1),
                                                ABCode("LoadConst", reg, index)),
                        !.const_uses = @ \cup {use}]
        ELSE [g0 EXCEPT !.func = f1, !.const_uses = @ \cup {use}]

\* Visit(Terminator *)
VisitTerminator(g, term) ==
    LET t == term.token_
        value_count == TopExpValueCount(g.fs)
        g0 == [g EXCEPT !.fs = PopExpValueCount(g.fs)]
    IN  IF t.token_ \in {"Token_Number", "Token_String"}
        THEN LET f1 == IF t.token_ = "Token_Number" THEN AddConstNumber(g0.func, t.number_)
                       ELSE AddConstString(g0.func, t.str_)
                 index == IF t.token_ = "Token_Number"
                          THEN IndexOfConst(f1.const_numbers, t.number_)
                          ELSE IndexOfConst(f1.const_strings, t.str_)
                 use == IF t.token_ = "Token_Number" THEN ConstUse("number", t.number_, index)
                        ELSE ConstUse("string", t.str_, index)
                 reg == GetNextRegister(f1)
             IN  IF value_count # 0
                 THEN [g0 EXCEPT !.func = AddInstruction(AllocaNextRegister(f1),
                                                         ABCode("LoadConst", reg, index)),
                                 !.const_uses = @ \cup {use}]
                 ELSE [g0 EXCEPT !.func = f1, !.const_uses = @ \cup {use}]
        ELSE IF t.token_ = "Token_Id"
        THEN LET cur == CurrentScope(g0.snl)
                 s_first == GetBlongsToScope(g0.snl, cur, t.str_)
                 s_second == GetOwnerFunction(g0.snl, s_first)
             IN  IF s_first = 0
                 THEN \* not in scope: the id is in the env table
                      LET f1 == AddConstString(g0.func, t.str_)
                          index == IndexOfConst(f1.const_strings, t.str_)
                          use == ConstUse("string", t.str_, index)
                          reg == GetNextRegister(f1)
                      IN  IF value_count # 0
                          THEN [g0 EXCEPT
                                  !.func = AddInstruction(
                                             AddInstruction(AllocaNextRegister(f1),
                                                            ABCode("LoadConst", reg, index)),
                                             ABCCode("GetUpTable", reg, ENV_TABLE_INDEX, reg)),
                                  !.const_uses = @ \cup {use}]
                          ELSE [g0 EXCEPT !.func = f1, !.const_uses = @ \cup {use}]
                 ELSE IF s_second = GetOwnerFunction(g0.snl, cur)
                 THEN LET src_reg == GetNameRegister(g0.snl, s_first, t.str_)
                          dst_reg == GetNextRegister(g0.func)
                      IN  IF value_count # 0
                          THEN [g0 EXCEPT !.func = AddInstruction(AllocaNextRegister(g0.func),
                                                     ABCode("Move", dst_reg, src_reg))]
                          ELSE g0
                 ELSE g0    \* assert(!"TODO: generate code for upvalue.")
        ELSE g0             \* assert(!"maybe miss some term type.")

\* the entries of the current scope that hold name n
CurrentHits(snl, n) ==
    {k \in (snl.scopes[CurrentScope(snl)].start_ + 1)..Len(snl.name_list_) :
        snl.name_list_[k].name_ = n}
\* What one iteration of Visit(NameList *) found (g) and left (g1) for name n.
NameStep(g, g1, n) ==
    [name |-> n,
     declared |-> CurrentHits(g.snl, n) # {},
     prior |-> {g.snl.name_list_[k].register_ : k \in CurrentHits(g.snl, n)},
     next_before |-> g.func.next_register, next_after |-> g1.func.next_register,
     list_before |-> g.snl.name_list_, list_after |-> g1.snl.name_list_,
     pending_before |-> g.fs.names_register_, pending_after |-> g1.fs.names_register_]

\* a register allocated and a scope entry made for every name
VisitNameListFromAlwaysNew(g, names, i) ==
    IF i > Len(names) THEN g
    ELSE LET n == names[i]
             reg == GetNextRegister(g.func)
             g1 == [g EXCEPT !.snl.name_list_ = Append(@, ScopeName(n, reg)),
                             !.func = AllocaNextRegister(@),
                             !.fs.names_register_ = Append(@, NameReg(reg, n))]
         IN  VisitNameListFromAlwaysNew(
                 [g1 EXCEPT !.name_steps = @ \cup {NameStep(g, g1, n)}], names, i + 1)

\* Visit(NameList *): names[i..]
VisitNameListFrom(g, names, i) ==
    IF i > Len(names) THEN g
    ELSE LET n == names[i]
             reg0 == GetNextRegister(g.func)
             added == AddScopeNameAdds(g.snl, n)
             reg == AddScopeNameReg(g.snl, n, reg0)
             g1 == [g EXCEPT !.snl = AddScopeName(g.snl, n, reg0),
                             !.func = IF added THEN AllocaNextRegister(@) ELSE @,
                             !.fs.names_register_ = Append(@, NameReg(reg, n))]
         IN  VisitNameListFrom(
                 [g1 EXCEPT !.name_steps = @ \cup {NameStep(g, g1, n)}], names, i + 1)
VisitNameList(g, names) == VisitNameListFrom(g, names, 1)

ExpPush(final, count) == [final |-> final, count |-> count]
\* g with count pushed on exp_value_count for expression i of exps
PushForExp(g, exps, i, count) ==
    [g EXCEPT !.fs = PushExpValueCount(@, count),
              !.exp_pushes = @ \cup {ExpPush(i = Len(exps), count)}]

\* every expression given all of value_count
VisitExpressionListFromAll(g, exps, i, value_count) ==
    IF i > Len(exps) THEN g
    ELSE VisitExpressionListFromAll(Visit(PushForExp(g, exps, i, value_count), exps[i]),
                                    exps, i + 1, value_count)

\* Visit(ExpressionList *): the loop from expression i with value_count left
VisitExpressionListFrom(g, exps, i, value_count) ==
    IF i > Len(exps) THEN g
    ELSE IF value_count = 0
    THEN VisitExpressionListFrom(Visit(PushForExp(g, exps, i, 0), exps[i]),
                                 exps, i + 1, value_count)
    ELSE LET count == IF i = Len(exps) THEN value_count ELSE 1
             left == IF value_count # EXP_VALUE_COUNT_ANY THEN value_count - count
                     ELSE value_count
         IN  VisitExpressionListFrom(Visit(PushForExp(g, exps, i, count), exps[i]),
                                     exps, i + 1, left)
VisitExpressionList(g, exp_list) ==
    VisitExpressionListFrom([g EXCEPT !.fs = PopExpListValueCount(@)],
                            exp_list.exp_list_, 1, TopExpListValueCount(g.fs))

\* Visit(FuncCallArgs *)
VisitFuncCallArgs(g, arg) ==
    IF arg.type_ \in {"String", "Table"}
    THEN Visit([g EXCEPT !.fs = PushExpValueCount(@, 1)], arg.arg_)
    ELSE IF arg.arg_ # NullNode
    THEN Visit([g EXCEPT !.fs = PushExpListValueCount(@, EXP_VALUE_COUNT_ANY)], arg.arg_)
    ELSE g

\* Visit(NormalFuncCall *)
VisitNormalFuncCall(g, func_call) ==
    LET reg == GetNextRegister(g.func)
        result_count == TopExpValueCount(g.fs)
        g0 == [g EXCEPT !.fs = PopExpValueCount(@)]
        g1 == Visit([g0 EXCEPT !.fs = PushExpValueCount(@, 1)], func_call.caller_)
        g2 == Visit(g1, func_call.args_)
    IN  [g2 EXCEPT !.func = AddInstruction(@, AsBxCode("Call", reg, result_count))]

\* node->Accept(this)
Visit(g, node) ==
    CASE node.type = "Terminator" -> VisitTerminator(g, node)
      [] node.type = "NormalFuncCall" -> VisitNormalFuncCall(g, node)
      [] node.type = "FuncCallArgs" -> VisitFuncCallArgs(g, node)
      [] node.type = "ExpressionList" -> VisitExpressionList(g, node)
      [] OTHER -> VisitStub(g, node)

LocalNameListStatement(names, exp_list) ==
    [type |-> "LocalNameListStatement", name_list_ |-> names, exp_list_ |-> exp_list]

\* `reg` read before the name list is visited.
VisitLocalNameListStatementRegFirst(g, local_name) ==
    LET reg == GetNextRegister(g.func)
        g1 == VisitNameList(g, local_name.name_list_)
        names == Len(g1.fs.names_register_)
        g2 == IF local_name.exp_list_ # NullNode
              THEN Visit([g1 EXCEPT !.fs = PushExpListValueCount(@, names)],
                         local_name.exp_list_)
              ELSE g1
        Moves[i \in 0..names] ==
            IF i = 0 THEN g2.func
            ELSE AddInstruction(Moves[i - 1],
                     ABCode("Move", g2.fs.names_register_[i].register_, reg + i - 1))
    IN  [g2 EXCEPT !.func = AddInstruction(SetNextRegister(Moves[names], reg),
                                            ACode("SetTop", reg)),
                   !.fs.names_register_ = <<>>]

\* The initializer list lowered before the names are declared.
VisitLocalNameListStatementExpFirst(g, local_name) ==
    LET g1 == IF local_name.exp_list_ # NullNode
              THEN Visit([g EXCEPT !.fs = PushExpListValueCount(@, Len(local_name.name_list_))],
                         local_name.exp_list_)
              ELSE g
        g2 == VisitNameList(g1, local_name.name_list_)
        reg == GetNextRegister(g.func)
        names == Len(g2.fs.names_register_)
        Moves[i \in 0..names] ==
            IF i = 0 THEN g2.func
            ELSE AddInstruction(Moves[i - 1],
                     ABCode("Move", g2.fs.names_register_[i].register_, reg + i - 1))
    IN  [g2 EXCEPT !.func = AddInstruction(SetNextRegister(Moves[names], GetNextRegister(g2.func)),
                                            ACode("SetTop", reg)),
                   !.fs.names_register_ = <<>>]

\* Visit(LocalNameListStatement *)
VisitLocalNameListStatement(g, local_name) ==
    LET g1 == VisitNameList(g, local_name.name_list_)
        reg == GetNextRegister(g1.func)
        names == Len(g1.fs.names_register_)
        g2 == IF local_name.exp_list_ # NullNode
              THEN Visit([g1 EXCEPT !.fs = PushExpListValueCount(@, names)],
                         local_name.exp_list_)
              ELSE g1
        Moves[i \in 0..names] ==
            IF i = 0 THEN g2.func
            ELSE AddInstruction(Moves[i - 1],
                     ABCode("Move", g2.fs.names_register_[i].register_, reg + i - 1))
    IN  [g2 EXCEPT !.func = AddInstruction(SetNextRegister(Moves[names], reg),
                                            ACode("SetTop", reg)),
                   !.fs.names_register_ = <<>>]


\* ------------------------------------------------------ the state machine
NoStmt == [kind |-> "none"]

\* What a statement visit starts from and was given.
StmtRecord(kind, node) ==
    [kind |-> kind, node |-> node,
     reg_before |-> func.next_register,
     names_before |-> Len(scope_name_list_.name_list_),
     declared_before |-> {scope_name_list_.name_list_[i].name_ :
                             i \in 1..Len(scope_name_list_.name_list_)},
     evc_before |-> Len(func_states_[func_state_].exp_value_count_),
     elvc_before |-> Len(func_states_[func_state_].exp_list_value_count_),
     code_before |-> Len(func.instructions)]

G == [func |-> func, fs |-> func_states_[func_state_], snl |-> scope_name_list_,
      unsupported |-> unsupported, const_uses |-> const_uses, exp_pushes |-> {},
      name_steps |-> {}]

\* the generator's state after a visit that left g
Becomes(g) ==
    /\ func' = g.func
    /\ func_states_' = [func_states_ EXCEPT ![func_state_] = g.fs]
    /\ scope_name_list_' = g.snl
    /\ unsupported' = g.unsupported
    /\ const_uses' = g.const_uses
    /\ exp_pushes' = g.exp_pushes
    /\ name_steps' = g.name_steps

CGInit ==
    /\ pc = "idle"
    /\ func_ = NullFunc
    /\ func = NewFunctionRecord
    /\ func_states_ = <<>>
    /\ func_state_ = 0
    /\ scope_name_list_ = EmptyScopeNameList
    /\ block_reg = 0
    /\ stack_ = <<>>
    /\ stmt = NoStmt
    /\ unsupported = FALSE
    /\ const_uses = {}
    /\ exp_pushes = {}
    /\ name_steps = {}
    /\ block_locals = 0
    /\ nodes = 0

\* Visit(Chunk *) up to the statement loop of Visit(Block *): a new Function,
\* a new FunctionGenerateState, the block's NameScope and its `reg`.
ChunkBegin ==
    /\ pc = "idle"
    /\ Len(stack_) < MaxChunks
    /\ func_' = Len(stack_) + 1
    /\ func' = NewFunctionRecord
    /\ func_states_' = Append(func_states_, NewFunctionGenerateState)
    /\ func_state_' = Len(func_states_) + 1
    /\ scope_name_list_' = NameScopeEnter(scope_name_list_, func_')
    /\ block_reg' = GetNextRegister(func')
    /\ pc' = "block"
    /\ stmt' = NoStmt
    /\ unsupported' = FALSE
    /\ const_uses' = {}
    /\ exp_pushes' = {}
    /\ name_steps' = {}
    /\ block_locals' = 0
    /\ UNCHANGED <<stack_, nodes>>
    /\ UNCHANGED <<scvars, gcvars>>

\* One statement of the block: local names [= exp_list]
LocalStatement(names, exp_list) ==
    LET node == LocalNameListStatement(names, exp_list)
        w == Len(names) + Weight(exp_list)
        g == VisitLocalNameListStatement(G, node)
    IN  /\ pc = "block"
        /\ nodes + w <= MaxNodes
        /\ Becomes(g)
        /\ stmt' = StmtRecord("local", node)
        /\ block_locals' = block_locals
                             + Len(g.snl.name_list_) - Len(scope_name_list_.name_list_)
        /\ nodes' = nodes + w
        /\ UNCHANGED <<pc, func_, func_state_, block_reg, stack_>>
        /\ UNCHANGED <<scvars, gcvars>>

\* One statement of the block: a function call
CallStatement(call) ==
    LET g == VisitNormalFuncCall(G, call)
    IN  /\ pc = "block"
        /\ nodes + Weight(call) <= MaxNodes
        /\ Becomes(g)
        /\ stmt' = StmtRecord("call", call)
        /\ nodes' = nodes + Weight(call)
        /\ UNCHANGED <<pc, func_, func_state_, block_reg, stack_, block_locals>>
        /\ UNCHANGED <<scvars, gcvars>>

\* One statement of the block whose Visit has an empty body
StubStatement(ty) ==
    LET g == VisitStub(G, StubNode(ty))
    IN  /\ pc = "block"
        /\ ty # "ReturnStatement"
        /\ nodes + 1 <= MaxNodes
        /\ Becomes(g)
        /\ stmt' = StmtRecord("stub", StubNode(ty))
        /\ nodes' = nodes + 1
        /\ UNCHANGED <<pc, func_, func_state_, block_reg, stack_, block_locals>>
        /\ UNCHANGED <<scvars, gcvars>>

\* Visit(Block *) ending without func_->SetNextRegister(reg)
ChunkEndNoRestore(has_return) ==
    LET g == IF has_return THEN VisitStub(G, StubNode("ReturnStatement")) ELSE G
        w == IF has_return THEN 1 ELSE 0
    IN  /\ pc = "block"
        /\ nodes + w <= MaxNodes
        /\ func' = AddInstruction(g.func, ACode("SetTop", block_reg))
        /\ scope_name_list_' = NameScopeExit(g.snl)
        /\ unsupported' = g.unsupported
        /\ stack_' = Append(stack_, func_)
        /\ pc' = "idle"
        /\ stmt' = NoStmt
        /\ exp_pushes' = {}
        /\ name_steps' = {}
        /\ nodes' = nodes + w
        /\ UNCHANGED <<func_, func_states_, func_state_, block_reg, const_uses,
                       block_locals>>
        /\ UNCHANGED <<scvars, gcvars>>

\* The end of Visit(Block *) (the optional return statement, the register
\* restored, SetTop, the NameScope destroyed) and the rest of Visit(Chunk *):
\* the closure pushed on the stack.
ChunkEnd(has_return) ==
    LET g == IF has_return THEN VisitStub(G, StubNode("ReturnStatement")) ELSE G
        w == IF has_return THEN 1 ELSE 0
    IN  /\ pc = "block"
        /\ nodes + w <= MaxNodes
        /\ func' = AddInstruction(SetNextRegister(g.func, block_reg),
                                  ACode("SetTop", block_reg))
        /\ scope_name_list_' = NameScopeExit(g.snl)
        /\ unsupported' = g.unsupported
        /\ stack_' = Append(stack_, func_)
        /\ pc' = "idle"
        /\ stmt' = NoStmt
        /\ exp_pushes' = {}
        /\ name_steps' = {}
        /\ nodes' = nodes + w
        /\ UNCHANGED <<func_, func_states_, func_state_, block_reg, const_uses,
                       block_locals>>
        /\ UNCHANGED <<scvars, gcvars>>

\* AST leaves still to be lowered
Room == MaxNodes - nodes

SCInit ==
    /\ entered = <<>>
    /\ last_exit = [kind |-> "none"]

GCInit ==
    /\ heap = {}
    /\ generation_ = [o \in 1..MaxObjects |-> GCGen0]
    /\ refs = [o \in 1..MaxObjects |-> {}]
    /\ roots = {}
    /\ barriered_ = <<>>
    /\ allocated = 0
    /\ ops = 0
    /\ barrier_stored = {}
    /\ barrier_kept = {}
    /\ last_gc = [kind |-> "none"]

Init == CGInit /\ SCInit /\ GCInit

Next ==
    \/ ChunkBegin
    \/ \E names \in NameLists(Room) : LocalStatement(names, NullNode)
    \/ \E names \in NameLists(Room) : \E es \in ExpLists(Room - Len(names)) :
          LocalStatement(names, ExpressionList(es))
    \/ \E call \in Calls(Room) : CallStatement(call)
    \/ \E ty \in StubStmtTypes : StubStatement(ty)
    \/ \E r \in BOOLEAN : ChunkEnd(r)

Spec == Init /\ [][Next]_vars

\* ------------------------------------------- NameScope driven directly
\* The class by itself: scopes are constructed and destroyed in stack
\* order, names are added to the current scope. The first scope is given
\* an owner (with none, the constructor reads previous_->owner_ of nullptr).
Owners == {1, 2}
OtherCG == <<pc, func_, func, func_states_, func_state_, block_reg, stack_, stmt,
             unsupported, const_uses, exp_pushes, name_steps,
            block_locals, nodes>>

ScopeEnter(owner) ==
    /\ Len(scope_name_list_.scopes) < MaxScopes
    /\ owner # NullFunc \/ scope_name_list_.scopes # <<>>
    /\ scope_name_list_' = NameScopeEnter(scope_name_list_, owner)
    /\ entered' = Append(entered, scope_name_list_.name_list_)
    /\ last_exit' = [kind |-> "none"]
    /\ UNCHANGED <<OtherCG, gcvars>>

ScopeAddName(name, reg) ==
    /\ scope_name_list_.scopes # <<>>
    /\ Len(scope_name_list_.name_list_) < MaxScopeNames
    /\ scope_name_list_' = AddScopeName(scope_name_list_, name, reg)
    /\ last_exit' = [kind |-> "none"]
    /\ UNCHANGED <<entered, OtherCG, gcvars>>

NamesOf(list) == {list[i].name_ : i \in 1..Len(list)}

ScopeExit ==
    /\ scope_name_list_.scopes # <<>>
    /\ scope_name_list_' = NameScopeExit(scope_name_list_)
    /\ last_exit' = [kind |-> "exit",
                     at_entry |-> entered[Len(entered)],
                     depth |-> Len(scope_name_list_.scopes),
                     only_inside |-> NamesOf(scope_name_list_.name_list_)
                                       \ NamesOf(entered[Len(entered)]),
                     inside |-> SubSeq(scope_name_list_.name_list_,
                                       Len(entered[Len(entered)]) + 1,
                                       Len(scope_name_list_.name_list_))]
    /\ entered' = SubSeq(entered, 1, Len(entered) - 1)
    /\ UNCHANGED <<OtherCG, gcvars>>

SCNext ==
    \/ \E owner \in Owners \cup {NullFunc} : ScopeEnter(owner)
    \/ \E name \in Names, reg \in 0..MaxRegister : ScopeAddName(name, reg)
    \/ ScopeExit

SpecScope == Init /\ [][SCNext]_vars

\* C3: exiting a scope leaves the scope name list with the length (and the
\* entries) it had when that scope was entered and makes the previous scope
\* current; a name added only inside the exited scope resolves to no scope.
C3_ScopeExitTruncates ==
    last_exit.kind = "exit" =>
      /\ Len(scope_name_list_.name_list_) = Len(last_exit.at_entry)
      /\ scope_name_list_.name_list_ = last_exit.at_entry
      /\ CurrentScope(scope_name_list_) = last_exit.depth - 1
      /\ \A name \in last_exit.only_inside :
            GetBlongsToScope(scope_name_list_, CurrentScope(scope_name_list_), name) = 0

\* an inner scope that added a name was exited and an outer scope, which
\* holds another name, is current again
C3_Witness ==
    /\ last_exit.kind = "exit"
    /\ last_exit.only_inside # {}
    /\ last_exit.depth >= 2
    /\ last_exit.at_entry # <<>>


\* ---------------------------------------------------- code generator claims
FS == func_states_[func_state_]
\* Visit(Chunk *) has returned at least once and no chunk is being lowered
Completed == pc = "idle" /\ stack_ # <<>>
\* the instructions the last statement emitted
Emitted == SubSeq(func.instructions, stmt.code_before + 1, Len(func.instructions))
NewNames == Len(scope_name_list_.name_list_) - stmt.names_before

\* C1: after a local declaration or a call statement the next-register
\* watermark is its value before the statement plus the number of names the
\* statement newly declared; every temporary is released. (Stated for chunks
\* in which every node visited so far has a lowering.)
C1_WatermarkAfterStatement ==
    (stmt.kind \in {"local", "call"} /\ ~unsupported) =>
        func.next_register = stmt.reg_before + NewNames

\* C2: after each statement, and after the whole chunk, exp_value_count and
\* exp_list_value_count have the depth they had before it.
C2_ValueCountBalance ==
    /\ stmt.kind # "none" =>
         /\ Len(FS.exp_value_count_) = stmt.evc_before
         /\ Len(FS.exp_list_value_count_) = stmt.elvc_before
    /\ Completed =>
         /\ FS.exp_value_count_ = <<>>
         /\ FS.exp_list_value_count_ = <<>>

\* C4 as stated: the watermark after a block is the watermark before it plus
\* the number of locals declared at the block's top level.
C4_BlockWatermarkPlusLocals ==
    Completed => func.next_register = block_reg + block_locals

\* C4 as amended: the watermark after a block equals the watermark before
\* it; the registers of the block's locals are released with the block.
C4_BlockWatermarkRestored ==
    Completed => func.next_register = block_reg

C4_Witness ==
    Completed /\ block_locals > 0 /\ func.next_register = block_reg

NoDuplicates(pool) == \A i, j \in 1..Len(pool) : pool[i] = pool[j] => i = j
PoolOf(u) == IF u.pool = "number" THEN func.const_numbers ELSE func.const_strings

\* C5: no constant pool holds two equal entries, and every occurrence of a
\* literal (value requested or not) is given the index of its one entry.
C5_ConstantDedup ==
    /\ NoDuplicates(func.const_numbers)
    /\ NoDuplicates(func.const_strings)
    /\ \A u, v \in const_uses :
          (u.pool = v.pool /\ u.value = v.value) => u.index = v.index
    /\ \A u \in const_uses :
          u.index + 1 \in 1..Len(PoolOf(u)) /\ PoolOf(u)[u.index + 1] = u.value

\* `local a = 1, 1`: the second 1 is lowered with no value requested
C5_Witness ==
    /\ stmt.kind = "local"
    /\ stmt.node = LocalNameListStatement(<<"a">>,
                      ExpressionList(<<Terminator(NumberTok(1)), Terminator(NumberTok(1))>>))
    /\ func.const_numbers = <<1>>
    /\ Emitted = <<ABCode("LoadConst", stmt.reg_before + 1, 0),
                   ABCode("Move", stmt.reg_before, stmt.reg_before + 1),
                   ACode("SetTop", stmt.reg_before + 1)>>

\* C6: a chunk in which a node with no specified lowering was visited never
\* completes normally.
C6_UnsupportedNeverCompletes == ~(Completed /\ unsupported)

\* `local a, b = 1, 2` lowered at watermark 0 in an empty scope, nothing emitted before
S1 == LocalNameListStatement(<<"a", "b">>,
          ExpressionList(<<Terminator(NumberTok(1)), Terminator(NumberTok(2))>>))
LoweredS1 ==
    /\ stmt.kind = "local"
    /\ stmt.node = S1
    /\ stmt.reg_before = 0
    /\ stmt.names_before = 0
    /\ stmt.code_before = 0
    /\ stmt.evc_before = 0

\* C7 as stated: the initializers are loaded into r0 and r1 and SetTop gets 0.
C7_S1LoadsIntoR0R1 ==
    LoweredS1 =>
      /\ func.const_numbers = <<1, 2>>
      /\ func.instructions = <<ABCode("LoadConst", 0, 0), ABCode("LoadConst", 1, 1),
                               ABCode("Move", 0, 0), ABCode("Move", 1, 1),
                               ACode("SetTop", 0)>>

\* C7 as amended: a and b are bound to r0 and r1, the initializers are loaded
\* into r2 and r3, moved down, and SetTop gets 2, which is the watermark left.
C7_S1LoadsAboveLocals ==
    LoweredS1 =>
      /\ func.const_numbers = <<1, 2>>
      /\ func.instructions = <<ABCode("LoadConst", 2, 0), ABCode("LoadConst", 3, 1),
                               ABCode("Move", 0, 2), ABCode("Move", 1, 3),
                               ACode("SetTop", 2)>>
      /\ scope_name_list_.name_list_ = <<ScopeName("a", 0), ScopeName("b", 1)>>
      /\ func.next_register = 2

C7_Witness == LoweredS1 /\ Len(func.instructions) = 5

\* a call statement f(l1, .., ln) with f an undeclared name and literal arguments
IsLiteral(e) == e.type = "Terminator" /\ e.token_.token_ \in {"Token_Number", "Token_String"}
ArgList(args) ==
    IF args.type_ = "ExpList"
    THEN IF args.arg_ = NullNode THEN <<>> ELSE args.arg_.exp_list_
    ELSE <<args.arg_>>
GlobalCallOfLiterals ==
    /\ stmt.kind = "call"
    /\ stmt.node.caller_.type = "Terminator"
    /\ stmt.node.caller_.token_.str_ \notin stmt.declared_before
    /\ \A i \in 1..Len(ArgList(stmt.node.args_)) : IsLiteral(ArgList(stmt.node.args_)[i])
K(t) == IF t.token_ = "Token_Number" THEN IndexOfConst(func.const_numbers, t.number_)
        ELSE IndexOfConst(func.const_strings, t.str_)
ExpectedCall(r, call, result_count) ==
    <<ABCode("LoadConst", r, K(call.caller_.token_)),
      ABCCode("GetUpTable", r, ENV_TABLE_INDEX, r)>>
      \o [i \in 1..Len(ArgList(call.args_)) |->
             ABCode("LoadConst", r + i, K(ArgList(call.args_)[i].token_))]
      \o <<AsBxCode("Call", r, result_count)>>

\* C8: a call statement of a global, whatever was lowered before it, emits
\* LoadConst r K(callee); GetUpTable r ENV r; its arguments into r+1, r+2, ..;
\* Call r 0, r being the watermark at the call.
C8_CallStatementExpectsZero ==
    GlobalCallOfLiterals => Emitted = ExpectedCall(stmt.reg_before, stmt.node, 0)


\* ------------------------------------------------------------------- GC
\* The header declares the collector; its bodies are not among the sources.
\* CheckBarrier and CHECK_BARRIER are the header's; allocation, SetBarrier
\* and the two collections follow the specification's description. CheckGC
\* picks a collection from the thresholds; here either collection may run
\* at any time, which includes every choice CheckGC can make. Both root
\* travellers visit `roots`. Colours are White outside a collection, so the
\* mark phase appears as the set of objects it colours Black.
Objects == 1..MaxObjects
Range(f) == {f[i] : i \in DOMAIN f}

RECURSIVE Trace(_, _)
\* everything reached from S along the edges E
Trace(S, E) ==
    LET T == S \cup UNION {E[o] : o \in S}
    IN  IF T = S THEN S ELSE Trace(T, E)

\* what a trace from the roots reaches, following every reference
RootReach == Trace(roots, refs)
\* the live objects the program can get hold of
Held == {o \in Trace(roots, [o \in Objects |-> IF o \in heap THEN refs[o] ELSE {}]) :
            o \in heap}

\* the barrier taken for the oldest generation only
CheckBarrierOldestOnly(obj) == generation_[obj] = GCGen2

\* inline bool CheckBarrier(GCObject *obj)
CheckBarrier(obj) == generation_[obj] # GCGen0

\* GC::SetBarrier: the barrier queue after it
SetBarrier(obj) == Append(barriered_, obj)

\* SetBarrier whatever the generation
CHECK_BARRIER_Always(obj) == SetBarrier(obj)

\* the macro expanding to nothing
CHECK_BARRIER_Empty(obj) == barriered_

\* #define CHECK_BARRIER(gc, obj): the barrier queue after it
CHECK_BARRIER(obj) == IF CheckBarrier(obj) THEN SetBarrier(obj) ELSE barriered_

NoGC == [kind |-> "none"]
\* one more mutator operation
Op == ops < MaxOps /\ ops' = ops + 1
Before(kind) ==
    [kind |-> kind, heap |-> heap, generation_ |-> generation_, refs |-> refs,
     roots |-> roots, barriered |-> Range(barriered_),
     barrier_stored |-> barrier_stored, barrier_kept |-> barrier_kept]

\* what CHECK_BARRIER(gc, x) followed by x.member = y started from
BeforeStore(x, y) ==
    [kind |-> "store", obj |-> x, ref |-> y, heap |-> heap, generation_ |-> generation_,
     refs |-> refs, roots |-> roots, queue |-> barriered_, allocated |-> allocated]

\* GC::NewTable / NewFunction / NewClosure / NewString(gen); the caller holds
\* the new object (on the stack, a root) until it drops it.
NewObject(gen) ==
    /\ allocated < MaxObjects
    /\ Op
    /\ allocated' = allocated + 1
    /\ heap' = heap \cup {allocated'}
    /\ generation_' = [generation_ EXCEPT ![allocated'] = gen]
    /\ refs' = [refs EXCEPT ![allocated'] = {}]
    /\ roots' = roots \cup {allocated'}
    /\ last_gc' = NoGC
    /\ UNCHANGED <<barriered_, barrier_stored>>
    /\ UNCHANGED barrier_kept
    /\ UNCHANGED <<cgvars, scvars>>

\* The mutator works on objects it holds (x, y \in Held; a root o \in roots).
\* x.member = y, guarded by CHECK_BARRIER(gc, x)
StoreRef(x, y) ==
    /\ x # y
    /\ Op
    /\ Len(barriered_) < MaxBarriered
    /\ barriered_' = CHECK_BARRIER(x)
    /\ refs' = [refs EXCEPT ![x] = @ \cup {y}]
    /\ barrier_stored' = barrier_stored \cup {<<x, y>>}
    /\ last_gc' = BeforeStore(x, y)
    /\ UNCHANGED <<heap, generation_, roots, allocated>>
    /\ UNCHANGED barrier_kept
    /\ UNCHANGED <<cgvars, scvars>>

\* x.member = y into an old x with the barrier left out
StoreRefNoBarrier(x, y) ==
    /\ x # y
    /\ Op
    /\ generation_[x] # GCGen0
    /\ refs' = [refs EXCEPT ![x] = @ \cup {y}]
    /\ last_gc' = NoGC
    /\ UNCHANGED <<heap, generation_, roots, barriered_, allocated, barrier_stored>>
    /\ UNCHANGED barrier_kept
    /\ UNCHANGED <<cgvars, scvars>>

\* x.member = nil
ClearRef(x, y) ==
    /\ Op
    /\ refs' = [refs EXCEPT ![x] = @ \ {y}]
    /\ barrier_stored' = barrier_stored \ {<<x, y>>}
    /\ last_gc' = NoGC
    /\ UNCHANGED <<heap, generation_, roots, barriered_, allocated>>
    /\ UNCHANGED barrier_kept
    /\ UNCHANGED <<cgvars, scvars>>

AddRoot(o) ==
    /\ Op
    /\ roots' = roots \cup {o}
    /\ last_gc' = NoGC
    /\ UNCHANGED <<heap, generation_, refs, barriered_, allocated, barrier_stored>>
    /\ UNCHANGED barrier_kept
    /\ UNCHANGED <<cgvars, scvars>>

DropRoot(o) ==
    /\ Op
    /\ roots' = roots \ {o}
    /\ last_gc' = NoGC
    /\ UNCHANGED <<heap, generation_, refs, barriered_, allocated, barrier_stored>>
    /\ UNCHANGED barrier_kept
    /\ UNCHANGED <<cgvars, scvars>>

\* The members the minor mark follows out of o: all of a gen0 object's, an
\* older object's only when it is in the barrier queue. A queue entry that a
\* major collection destroyed is a dangling pointer: the mark may follow
\* what it held (through_freed) or find nothing.
MinorEdges(through_freed) ==
    [o \in Objects |->
        IF (o \in heap \/ through_freed)
             /\ (generation_[o] = GCGen0 \/ o \in Range(barriered_))
        THEN refs[o] ELSE {}]
\* GC::MinorGCMark: the gen0 objects coloured Black
MinorMarked(through_freed) ==
    {o \in Trace(roots \cup Range(barriered_), MinorEdges(through_freed)) :
        o \in heap /\ generation_[o] = GCGen0}

\* the gen0 objects the minor traveller's roots alone lead to, through gen0
\* objects only
MinorMarkedByRoots ==
    {o \in Trace(roots, [x \in Objects |->
                           IF x \in heap /\ generation_[x] = GCGen0 THEN refs[x] ELSE {}]) :
        o \in heap /\ generation_[o] = GCGen0}

\* survivors of gen0 left in gen0
MinorGCNoPromotion(through_freed) ==
    LET black == MinorMarked(through_freed)
    IN  /\ heap' = {o \in heap : generation_[o] # GCGen0 \/ o \in black}
        /\ barriered_' = <<>>
        /\ barrier_stored' = {}
        /\ barrier_kept' = (barrier_kept \cap heap') \cup (black \ MinorMarkedByRoots)
        /\ last_gc' = Before("minor")
        /\ UNCHANGED <<generation_, refs, roots, allocated, ops>>
        /\ UNCHANGED <<cgvars, scvars>>

\* GC::MinorGC: mark, then sweep gen0 (Black promoted to gen1, White
\* destroyed), then the barrier queue cleared.
MinorGC(through_freed) ==
    LET black == MinorMarked(through_freed)
    IN  /\ heap' = {o \in heap : generation_[o] # GCGen0 \/ o \in black}
        /\ generation_' = [o \in Objects |-> IF o \in black THEN GCGen1 ELSE generation_[o]]
        /\ barriered_' = <<>>
        /\ barrier_stored' = {}
        /\ barrier_kept' = (barrier_kept \cap heap') \cup (black \ MinorMarkedByRoots)
        /\ last_gc' = Before("minor")
        /\ UNCHANGED <<refs, roots, allocated, ops>>
        /\ UNCHANGED <<cgvars, scvars>>

\* the barrier queue taken as roots of the major mark too
MajorMarkedWithQueue ==
    {o \in Trace(roots \cup Range(barriered_),
                 [x \in Objects |-> IF x \in heap THEN refs[x] ELSE {}]) : o \in heap}

\* GC::MajorGCMark: the objects coloured Black, of any generation
MajorMarked == Held

\* GC::MajorGC: mark, then sweep every generation (White destroyed); the
\* survivors of gen1 are promoted to gen2.
MajorGC ==
    LET black == MajorMarked
    IN  /\ heap' = black
        /\ generation_' = [o \in Objects |->
                             IF o \in black /\ generation_[o] = GCGen1 THEN GCGen2
                             ELSE generation_[o]]
        /\ barrier_stored' = {e \in barrier_stored : e[1] \in black /\ e[2] \in black}
        /\ barrier_kept' = barrier_kept \cap black
        /\ last_gc' = Before("major")
        /\ UNCHANGED <<refs, roots, barriered_, allocated, ops>>
        /\ UNCHANGED <<cgvars, scvars>>

Generations == {GCGen0, GCGen1, GCGen2}
\* the generations the allocators place a fresh object in by default
\* (Function in the oldest, every other object in the youngest); an object
\* of the middle generation is one a minor collection promoted
BirthGenerations == {GCGen0, GCGen2}

GCNext ==
    \/ \E gen \in BirthGenerations : NewObject(gen)
    \/ \E x, y \in Held : StoreRef(x, y)
    \/ \E x \in Held : \E y \in refs[x] : ClearRef(x, y)
    \/ \E o \in Held \ roots : AddRoot(o)
    \/ \E o \in roots : DropRoot(o)
    \* tracing through a destroyed object is a choice only when the queue holds one
    \/ \E through_freed \in {f \in BOOLEAN : f => ~(Range(barriered_) \subseteq heap)} :
          MinorGC(through_freed)
    \/ MajorGC

\* every reference store applies the barrier
SpecGC == Init /\ [][GCNext]_vars

GCNextNoBarrier ==
    \/ GCNext
    \/ \E x, y \in Held : StoreRefNoBarrier(x, y)

\* a mutator that may leave the barrier out
SpecGCNoBarrier == Init /\ [][GCNextNoBarrier]_vars

\* C9: with the barrier applied to every reference store, every object
\* reachable from the roots through references is alive.
C9_ReachableIsAlive == RootReach \subseteq heap

\* a minor collection kept a young object that only a barriered old object
\* referenced, and swept another object
C9_Witness ==
    /\ last_gc.kind = "minor"
    /\ last_gc.heap # heap
    /\ \E x \in roots, y \in heap \ roots :
          /\ last_gc.generation_[x] # GCGen0
          /\ last_gc.generation_[y] = GCGen0
          /\ y \in refs[x]
          /\ \A z \in Objects \ {x} : y \notin refs[z]


\* At the last minor collection: x was an old object holding the only
\* reference to the gen0 object y (no other object, live or dead, referred
\* to y and y was no root).
OldToYoungOnly(x, y) ==
    /\ last_gc.kind = "minor"
    /\ x \in last_gc.heap /\ y \in last_gc.heap
    /\ last_gc.generation_[x] # GCGen0
    /\ last_gc.generation_[y] = GCGen0
    /\ y \in last_gc.refs[x]
    /\ y \notin last_gc.roots
    /\ \A z \in Objects \ {x} : y \notin last_gc.refs[z]
\* y outlived the collection and a root trace that reaches x reaches y
Survived(x, y) == y \in heap /\ (x \in RootReach => y \in RootReach)

GenCount(h, g, gen) == Cardinality({o \in h : g[o] = gen})
\* the gen0 objects any mark of the last collection could have reached
ReachableGen0Before ==
    {o \in Trace(last_gc.roots \cup last_gc.barriered, last_gc.refs) :
        o \in last_gc.heap /\ last_gc.generation_[o] = GCGen0}

\* C11: after a minor collection every gen0 object of before is either in
\* gen1 or destroyed (gen0.count is 0), every object that was in gen1 or gen2
\* is alive in the same generation, and when no gen0 object was reachable
\* gen1.count is what it was.
C11_MinorPromotesGen0Only ==
    last_gc.kind = "minor" =>
      /\ \A o \in last_gc.heap :
            IF last_gc.generation_[o] = GCGen0
            THEN o \in heap => generation_[o] = GCGen1
            ELSE o \in heap /\ generation_[o] = last_gc.generation_[o]
      /\ heap \subseteq last_gc.heap
      /\ GenCount(heap, generation_, GCGen0) = 0
      /\ ReachableGen0Before = {} =>
            GenCount(heap, generation_, GCGen1)
               = GenCount(last_gc.heap, last_gc.generation_, GCGen1)

\* a minor collection promoted one gen0 object, destroyed another, and kept
\* in gen1 an object that was in gen1 before it
C11_Witness ==
    /\ last_gc.kind = "minor"
    /\ \E o \in heap : last_gc.generation_[o] = GCGen0 /\ generation_[o] = GCGen1
    /\ \E o \in last_gc.heap \ heap : last_gc.generation_[o] = GCGen0
    /\ \E o \in heap : last_gc.generation_[o] = GCGen1 /\ generation_[o] = GCGen1

\* the objects alive before the last collection that its roots reached
\* through live objects
ReachableBefore ==
    {o \in Trace(last_gc.roots,
                 [x \in Objects |-> IF x \in last_gc.heap THEN last_gc.refs[x] ELSE {}]) :
        o \in last_gc.heap}

\* C12: a major collection leaves alive exactly the objects that were
\* reachable from the major roots, whatever their generation: an object
\* dropped from the roots and what only it referred to are both destroyed.
C12_MajorSweepsUnreachable ==
    last_gc.kind = "major" =>
      /\ heap = ReachableBefore
      /\ \A a \in last_gc.heap \ ReachableBefore : \A b \in last_gc.refs[a] :
            (\A z \in last_gc.heap \ {a} : b \notin last_gc.refs[z]) /\ b \notin last_gc.roots
               => a \notin heap /\ b \notin heap

\* a gen2 object A dropped from the roots was the only referrer of B, which
\* an earlier minor collection had kept through the barrier queue; the major
\* collection destroyed both
C12_Witness ==
    /\ last_gc.kind = "major"
    /\ \E a, b \in last_gc.heap \ heap :
          /\ last_gc.generation_[a] = GCGen2
          /\ b \in last_gc.refs[a]
          /\ b \in last_gc.barrier_kept
          /\ \A z \in Objects \ {a} : b \notin last_gc.refs[z]

\* C13: whenever no chunk is being visited, the stack of per-function
\* generation states has the depth it had before the first visit (none):
\* each Visit(Chunk *) has popped the state it pushed.
C13_FunctionStatePopped == pc = "idle" => Len(func_states_) = 0

C15_NameListBindsOrReuses ==
    /\ \A u \in name_steps :
          IF ~u.declared
          THEN /\ u.list_after = Append(u.list_before, ScopeName(u.name, u.next_before))
               /\ u.next_after = u.next_before + 1
               /\ u.pending_after = Append(u.pending_before, NameReg(u.next_before, u.name))
          ELSE /\ u.list_after = u.list_before
               /\ u.next_after = u.next_before
               /\ \E r \in u.prior :
                     u.pending_after = Append(u.pending_before, NameReg(r, u.name))
    /\ stmt.kind = "local" => FS.names_register_ = <<>>

\* one NameList declared a new name at a watermark above 0 and met a name
\* the current scope already held
C15_Witness ==
    /\ stmt.kind = "local"
    /\ \E u \in name_steps : ~u.declared /\ u.next_before > 0
    /\ \E u \in name_steps : u.declared

\* The entries made while scope k was the current one: from its start_ to
\* the start_ of the scope entered next (to the end for the current scope).
OwnEntries(snl, k) ==
    (snl.scopes[k].start_ + 1)..
        (IF k < Len(snl.scopes) THEN snl.scopes[k + 1].start_ ELSE Len(snl.name_list_))
Declares(snl, k, name) == \E i \in OwnEntries(snl, k) : snl.name_list_[i].name_ = name
\* the innermost scope that declares name (0: none)
Nearest(snl, name) ==
    IF \E k \in 1..Len(snl.scopes) : Declares(snl, k, name)
    THEN CHOOSE k \in 1..Len(snl.scopes) :
            /\ Declares(snl, k, name)
            /\ \A j \in (k + 1)..Len(snl.scopes) : ~Declares(snl, j, name)
    ELSE 0

\* C16: a lookup from the current scope yields the innermost enclosing scope
\* that declares the name, the register that scope bound to it and that
\* scope's owner function; a name no enclosing scope declares yields no scope.
C16_LookupFindsNearest ==
    scope_name_list_.scopes # <<>> =>
      \A name \in Names :
        LET snl == scope_name_list_
            k == GetBlongsToScope(snl, CurrentScope(snl), name)
        IN  /\ k = Nearest(snl, name)
            /\ k # 0 =>
                 /\ \E i \in OwnEntries(snl, k) :
                       snl.name_list_[i] = ScopeName(name, GetNameRegister(snl, k, name))
                 /\ GetOwnerFunction(snl, k) = snl.scopes[k].owner_
            /\ k = 0 => GetOwnerFunction(snl, k) = NullFunc

\* an inner scope that had rebound a name of an outer scope to another
\* register was exited, and the lookup yields the outer register again
C16_Witness ==
    /\ last_exit.kind = "exit"
    /\ scope_name_list_.scopes # <<>>
    /\ \E i \in 1..Len(last_exit.inside) :
          LET e == last_exit.inside[i]
              k == GetBlongsToScope(scope_name_list_, CurrentScope(scope_name_list_), e.name_)
          IN  /\ k # 0
              /\ GetNameRegister(scope_name_list_, k, e.name_) # e.register_

\* C17: CHECK_BARRIER(gc, obj) appends obj to the barrier queue exactly when
\* obj is in gen1 or gen2; on a gen0 object it leaves the queue and the rest
\* of the collector's state as they were (the store that follows adds the
\* reference, nothing else); a minor collection leaves the queue empty.
C17_BarrierQueuesOldOnly ==
    /\ last_gc.kind = "store" =>
         /\ barriered_ = IF last_gc.generation_[last_gc.obj] \in {GCGen1, GCGen2}
                         THEN Append(last_gc.queue, last_gc.obj)
                         ELSE last_gc.queue
         /\ heap = last_gc.heap
         /\ generation_ = last_gc.generation_
         /\ roots = last_gc.roots
         /\ allocated = last_gc.allocated
         /\ refs = [last_gc.refs EXCEPT ![last_gc.obj] = @ \cup {last_gc.ref}]
    /\ last_gc.kind = "minor" => barriered_ = <<>>

\* a store into a gen1 object that was in the queue already queued it again
C17_Witness ==
    /\ last_gc.kind = "store"
    /\ last_gc.generation_[last_gc.obj] = GCGen1
    /\ last_gc.obj \in Range(last_gc.queue)
    /\ Len(barriered_) = Len(last_gc.queue) + 1

\* C18: at every statement boundary inside a block every entry of the scope
\* name list (all of them belong to the current function) has a register
\* strictly below the next-register watermark, and no two entries hold the
\* same register.
C18_LocalsBelowWatermark ==
    pc = "block" =>
      LET list == scope_name_list_.name_list_
      IN  /\ \A i \in 1..Len(list) : list[i].register_ < func.next_register
          /\ \A i, j \in 1..Len(list) : list[i].register_ = list[j].register_ => i = j
          /\ \A k \in 1..Len(scope_name_list_.scopes) :
                scope_name_list_.scopes[k].owner_ = func_

\* two locals are in scope after a statement that used temporaries above them
C18_Witness ==
    /\ pc = "block"
    /\ Len(scope_name_list_.name_list_) >= 2
    /\ stmt.kind = "local"
    /\ \E i \in 1..Len(Emitted) : Emitted[i][1] = "LoadConst"
    /\ func.next_register > Len(scope_name_list_.name_list_)

\* the registers an instruction writes (a call: its results from r upwards,
\* every register from r when their number is open)
Written(ins) ==
    CASE ins[1] \in {"LoadConst", "GetUpTable", "Move"} -> {ins[2]}
      [] ins[1] = "Call" -> IF ins[3] = EXP_VALUE_COUNT_ANY THEN {r \in 0..(2 * MaxNodes) : r >= ins[2]}
                            ELSE {r \in 0..(2 * MaxNodes) : r >= ins[2] /\ r < ins[2] + ins[3]}
      [] OTHER -> {}
\* of the last local declaration: its N names, the instructions emitted for
\* its initializer list, and the N Moves that follow them
DeclaredNames == Len(stmt.node.name_list_)
InitializerCode == SubSeq(Emitted, 1, Len(Emitted) - DeclaredNames - 1)
NameMoves == SubSeq(Emitted, Len(Emitted) - DeclaredNames, Len(Emitted) - 1)

\* C19: every Move of a local declaration reads a register that an
\* instruction emitted for the initializer list of the same statement wrote.
\* (Stated for statements in which every node visited has a lowering.)
C19_MovesReadLoadedRegisters ==
    (stmt.kind = "local" /\ ~unsupported) =>
       \A i \in 1..Len(NameMoves) :
          /\ NameMoves[i][1] = "Move"
          /\ \E j \in 1..Len(InitializerCode) : NameMoves[i][3] \in Written(InitializerCode[j])

\* the register the current scope binds to name n
RegisterOf(n) ==
    GetNameRegister(scope_name_list_, CurrentScope(scope_name_list_), n)
\* the last statement is a local declaration whose first initializer is an
\* identifier equal to one of the names it declares
FirstInitializerIsDeclaredName ==
    /\ stmt.kind = "local"
    /\ stmt.node.exp_list_ # NullNode
    /\ stmt.node.exp_list_.exp_list_[1].type = "Terminator"
    /\ stmt.node.exp_list_.exp_list_[1].token_.token_ = "Token_Id"
    /\ \E i \in 1..Len(stmt.node.name_list_) :
          stmt.node.name_list_[i] = stmt.node.exp_list_.exp_list_[1].token_.str_
\* an identifier of the initializer list that is one of the declared names
DeclaredIds ==
    IF stmt.kind = "local" /\ stmt.node.exp_list_ # NullNode
    THEN {stmt.node.exp_list_.exp_list_[i].token_.str_ :
             i \in {j \in 1..Len(stmt.node.exp_list_.exp_list_) :
                       /\ stmt.node.exp_list_.exp_list_[j].type = "Terminator"
                       /\ stmt.node.exp_list_.exp_list_[j].token_.token_ = "Token_Id"
                       /\ \E k \in 1..Len(stmt.node.name_list_) :
                             stmt.node.name_list_[k] = stmt.node.exp_list_.exp_list_[j].token_.str_}}
    ELSE {}
\* the statement loaded the global named n: LoadConst r K(n); GetUpTable r ENV r
LoadsGlobal(n) ==
    \E i \in 1..(Len(Emitted) - 1) :
       /\ Emitted[i][1] = "LoadConst"
       /\ InPool(func.const_strings, n)
       /\ Emitted[i][3] = IndexOfConst(func.const_strings, n)
       /\ Emitted[i + 1] = ABCCode("GetUpTable", Emitted[i][2], ENV_TABLE_INDEX, Emitted[i][2])

\* C20: the names of a local declaration are in scope when its initializer
\* list is lowered: an identifier there that equals a declared name is read
\* with a Move from that local's register (for the first initializer, the
\* first instruction of the statement, into the first temporary) and is
\* never loaded as a global.
C20_InitializerSeesDeclaredNames ==
    /\ FirstInitializerIsDeclaredName =>
          Emitted[1] = ABCode("Move", func.next_register,
                              RegisterOf(stmt.node.exp_list_.exp_list_[1].token_.str_))
    /\ \A n \in DeclaredIds : ~LoadsGlobal(n)

\* `local a = a` where no a was declared before: Move r1 r0; Move r0 r1; SetTop r1
C20_Witness ==
    /\ FirstInitializerIsDeclaredName
    /\ stmt.node = LocalNameListStatement(<<"a">>, ExpressionList(<<Terminator(IdTok("a"))>>))
    /\ "a" \notin stmt.declared_before
    /\ Emitted = <<ABCode("Move", stmt.reg_before + 1, stmt.reg_before),
                   ABCode("Move", stmt.reg_before, stmt.reg_before + 1),
                   ACode("SetTop", stmt.reg_before + 1)>>

=============================================================================
